---------------------------- MODULE Spec2Model ----------------------------
(***************************************************************************)
(* A model of the two pieces of EternityX1 that carry state-machine or     *)
(* parsing behaviour:                                                      *)
(*   - the stream assembler of ChatPanel.handleSend (the same loop is      *)
(*     repeated in StudioPanel.handleAction), at character level;          *)
(*   - the slide player of VideoPlayer.tsx, with React's state, refs,      *)
(*     effects, the browser's timers and the speech engine;                *)
(*   - the control flow of ChatPanel.handleSend around its awaits.         *)
(* Each part has its own specification (StreamSpec, Spec, ChatSpec); the   *)
(* variables of the other parts stay at their initial values.              *)
(***************************************************************************)
EXTENDS Integers, Sequences, FiniteSets, TLC

VARIABLES
    \* ---- stream assembler (ChatPanel.tsx 90-118) ----
    payload,            \* the whole wire text of the response body (history)
    wire,               \* the part of the body the reader has not delivered yet
    buf,                \* let buf = ""
    assistantContent,   \* let assistantContent = ""
    snapshots,          \* the contents handed to setMessages, in order
    phase,              \* "reading" | "closed" (reader.read() gave done) | "failed"
    persisted,          \* the assistant contents inserted at line 121
    doneSeen,           \* history: a data: [DONE] line has been processed
    accAtDone,          \* history: assistantContent when that happened
    \* ---- slide player (VideoPlayer.tsx) ----
    slideCount,         \* slides.length (props)
    currentSlide,       \* useState(0)
    isPlaying,          \* useState(false)
    isMuted,            \* useState(false)
    slideProgress,      \* useState(0), in thousandths of 1
    showControls,       \* useState(true)
    intervalRef,        \* intervalRef.current: the interval created last
    intervals,          \* the intervals the browser still runs
    elapsed,            \* Date.now() - startTimeRef.current, in time steps
    durationRef,        \* durationRef.current, in ms
    controlsTimer,      \* the auto-hide timeout of controlsTimerRef is pending
    queue,              \* utterances the speech engine is speaking (by slide)
    cancelled,          \* cancelled utterances whose end/error event is undelivered
    timeouts,           \* pending delayed advances of lines 59 and 90 (by slide)
    mounted,            \* the component is mounted (onClose has not run)
    ev,                 \* history: the last handler or callback that ran
    handsOff,           \* history: the user has stopped giving input
    \* ---- ChatPanel.handleSend (ChatPanel.tsx 52-130) and
    \* ---- StudioPanel.handleAction (StudioPanel.tsx 110-178) ----
    sendPc,             \* where each invocation of a handler stands
    caller,             \* which handler the invocation is: "chat" | "studio"
    isStreaming,        \* ChatPanel: useState(false)
    loadingAction,      \* StudioPanel: loadingAction is not null
    hasContent,         \* the content of the invocation is non-empty
    messages,           \* ChatPanel: the displayed message list
    failure,            \* history: the last failed request and its toast
    toasts              \* error toasts shown

streamVars == <<payload, wire, buf, assistantContent, snapshots, phase,
                persisted, doneSeen, accAtDone>>

playerVars == <<slideCount, currentSlide, isPlaying, isMuted, slideProgress,
                showControls, intervalRef, intervals, elapsed, durationRef,
                controlsTimer, queue, cancelled, timeouts, mounted, ev,
                handsOff>>

chatVars == <<sendPc, caller, isStreaming, loadingAction, hasContent, messages,
              failure, toasts>>

vars == <<streamVars, playerVars, chatVars>>

----------------------------------------------------------------------------
(* Bounds *)

MaxLines == 2           \* complete lines of a generated wire payload
MaxSlides == 2          \* slides of a presentation
MaxSteps == 2           \* time steps after which elapsed time saturates
StepMs == 2000          \* length of one time step, in ms
MaxSends == 2           \* invocations of handleSend and handleAction
MaxToasts == 2          \* error toasts counted
MaxMessages == 5        \* entries of the displayed message list

----------------------------------------------------------------------------
(* Characters and strings: a string is a sequence of one-character strings *)

NL == "\n"
CR == "\r"

DataPrefix == <<"d","a","t","a",":"," ">>
DoneText == <<"[","D","O","N","E","]">>
EnvelopeHead == <<"{","\"","c","h","o","i","c","e","s","\"",":","[","{","\"","d","e","l","t","a","\"",":","{","\"","c","o","n","t","e","n","t","\"",":","\"">>
EnvelopeTail == <<"\"","}","}","]","}">>
EmptyObject == <<"{","}">>
TruncatedJson == <<"{","\"","c","h">>
CommentText == <<":"," ","k">>
EventText == <<"e","v","e","n","t",":"," ","x">>

Whitespace == {" ", "\t", NL, CR}

\* String.prototype.startsWith / endsWith
StartsWith(s, p) == Len(s) >= Len(p) /\ SubSeq(s, 1, Len(p)) = p
EndsWith(s, p) == Len(s) >= Len(p) /\ SubSeq(s, Len(s) - Len(p) + 1, Len(s)) = p

\* String.prototype.slice(from) with a 0-based from >= 0
SliceFrom(s, from) == SubSeq(s, from + 1, Len(s))

\* String.prototype.trim
RECURSIVE TrimStart(_)
TrimStart(s) ==
    IF s = <<>> \/ Head(s) \notin Whitespace THEN s ELSE TrimStart(Tail(s))

RECURSIVE TrimEnd(_)
TrimEnd(s) ==
    IF s = <<>> \/ s[Len(s)] \notin Whitespace THEN s
    ELSE TrimEnd(SubSeq(s, 1, Len(s) - 1))

Trim(s) == TrimEnd(TrimStart(s))

\* indexOf taking the end of the text for a line end
RECURSIVE IndexFromOrEnd(_, _)
IndexFromOrEnd(s, i) ==
    IF i > Len(s) THEN Len(s) ELSE IF s[i] = NL THEN i ELSE IndexFromOrEnd(s, i + 1)

\* buf.indexOf("\n"), 1-based, 0 for -1
RECURSIVE IndexFrom(_, _)
IndexFrom(s, i) ==
    IF i > Len(s) THEN 0 ELSE IF s[i] = NL THEN i ELSE IndexFrom(s, i + 1)

IndexOfNL(s) == IndexFrom(s, 1)

\* JSON.parse(json).choices?.[0]?.delta?.content on the texts the model
\* sends: the delta envelope gives its content string, {} gives undefined
\* (rendered as the empty string, equally falsy), any other text throws.
JSONParseContent(json) ==
    IF json = EmptyObject THEN [ok |-> TRUE, c |-> <<>>]
    ELSE IF /\ StartsWith(json, EnvelopeHead)
            /\ EndsWith(json, EnvelopeTail)
            /\ Len(json) >= Len(EnvelopeHead) + Len(EnvelopeTail)
            /\ \A i \in (Len(EnvelopeHead) + 1)..(Len(json) - Len(EnvelopeTail)) :
                    json[i] \notin {"\"", "\\", NL, CR}
         THEN [ok |-> TRUE,
               c |-> SubSeq(json, Len(EnvelopeHead) + 1, Len(json) - Len(EnvelopeTail))]
         ELSE [ok |-> FALSE, c |-> <<>>]

----------------------------------------------------------------------------
(* The stream assembler *)

\* assistantContent = c: the += of line 109 written as a plain assignment
AccumulateAssign(acc, c) == c

\* assistantContent += c
Accumulate(acc, c) == acc \o c

\* buf = line + "\n" + buf
Rebuffer(line, rest) == line \o <<NL>> \o rest

\* the filter of line 103 letting every line through
IgnoredLineNever(line) == FALSE

\* if (!line.startsWith("data: ") || line.startsWith(":") || !line.trim()) continue
IgnoredLine(line) ==
    \/ ~StartsWith(line, DataPrefix)
    \/ StartsWith(line, <<":">>)
    \/ Trim(line) = <<>>

\* The inner while loop of lines 99-117, run until it leaves the loop: by
\* indexOf giving -1, by the break of [DONE] or by the break of the catch.
RECURSIVE DrainLines(_, _, _, _)
DrainLines(b, acc, snaps, done) ==
    LET nl == IndexOfNL(b) IN
    IF nl = 0 THEN [buf |-> b, acc |-> acc, snaps |-> snaps, done |-> done]
    ELSE
      LET raw  == SubSeq(b, 1, nl - 1)
          rest == SubSeq(b, nl + 1, Len(b))
          line == IF EndsWith(raw, <<CR>>) THEN SubSeq(raw, 1, Len(raw) - 1) ELSE raw
      IN
      IF IgnoredLine(line) THEN DrainLines(rest, acc, snaps, done)
      ELSE
        LET json == Trim(SliceFrom(line, 6)) IN
        IF json = DoneText
        THEN [buf |-> rest, acc |-> acc, snaps |-> snaps, done |-> TRUE]
        ELSE
          LET p == JSONParseContent(json) IN
          IF ~p.ok
          THEN [buf |-> Rebuffer(line, rest), acc |-> acc, snaps |-> snaps, done |-> done]
          ELSE IF p.c # <<>>
               THEN DrainLines(rest, Accumulate(acc, p.c),
                               Append(snaps, Accumulate(acc, p.c)), done)
               ELSE DrainLines(rest, acc, snaps, done)

\* The wire lines the payloads are built from
DeltaLine(c) == DataPrefix \o EnvelopeHead \o c \o EnvelopeTail \o <<NL>>
DeltaLineCRLF(c) == DataPrefix \o EnvelopeHead \o c \o EnvelopeTail \o <<CR, NL>>
DoneLine == DataPrefix \o DoneText \o <<NL>>
MalformedLine == DataPrefix \o TruncatedJson \o <<NL>>
EmptyDeltaLine == DataPrefix \o EmptyObject \o <<NL>>
CommentLine == CommentText \o <<NL>>
EventLine == EventText \o <<NL>>
BlankLine == <<NL>>

WireLines ==
    { DeltaLine(<<"a">>), DeltaLineCRLF(<<"b">>), DoneLine, MalformedLine,
      EmptyDeltaLine, CommentLine, EventLine, BlankLine }

RECURSIVE Payloads(_)
Payloads(n) ==
    IF n = 0 THEN { <<>> }
    ELSE LET shorter == Payloads(n - 1)
         IN  shorter \cup { p \o l : p \in shorter, l \in WireLines }

\* What may follow the last newline of a payload: a data line cut before
\* its own newline
PartialTails == { DataPrefix \o EnvelopeHead \o <<"c">> \o EnvelopeTail }

\* Scenario A of the specification: deltas "Hel" and "lo", then [DONE]
ScenarioA == DeltaLine(<<"H","e","l">>) \o DeltaLine(<<"l","o">>) \o DoneLine

\* Every kind of line the assembler passes over, around two deltas, then
\* [DONE]
ScenarioMixed ==
    CommentLine \o DeltaLine(<<"a">>) \o BlankLine \o EventLine
        \o EmptyDeltaLine \o DeltaLineCRLF(<<"b">>) \o DoneLine

\* Up to MaxLines lines, the last of which may lack its newline
WirePayloads ==
    Payloads(MaxLines)
        \cup { p \o t : p \in Payloads(MaxLines - 1), t \in PartialTails }
        \cup { ScenarioA, ScenarioMixed }

\* The length of the longest payload: the range of chunk sizes
PayloadLengths == { Len(p) : p \in WirePayloads }
MaxPayloadLen == CHOOSE n \in PayloadLengths : \A m \in PayloadLengths : m <= n

StreamIdle ==
    /\ payload = <<>>
    /\ wire = <<>>
    /\ buf = <<>>
    /\ assistantContent = <<>>
    /\ snapshots = <<>>
    /\ phase = "closed"
    /\ persisted = <<>>
    /\ doneSeen = FALSE
    /\ accAtDone = <<>>

\* const reader = resp.body.getReader(); let buf = ""; let assistantContent = ""
StreamInit ==
    /\ payload \in WirePayloads
    /\ wire = payload
    /\ buf = <<>>
    /\ assistantContent = <<>>
    /\ snapshots = <<>>
    /\ phase = "reading"
    /\ persisted = <<>>
    /\ doneSeen = FALSE
    /\ accAtDone = <<>>

\* One turn of the outer loop with done = false: a chunk of k characters
\* arrives, is appended to buf and the inner loop runs.
ReadChunk(k) ==
    /\ phase = "reading"
    /\ k \in 1..Len(wire)
    /\ \E r \in {DrainLines(buf \o SubSeq(wire, 1, k), assistantContent, snapshots, doneSeen)} :
           /\ buf' = r.buf
           /\ assistantContent' = r.acc
           /\ snapshots' = r.snaps
           /\ doneSeen' = r.done
           /\ accAtDone' = IF r.done /\ ~doneSeen THEN r.acc ELSE accAtDone
    /\ wire' = SubSeq(wire, k + 1, Len(wire))
    /\ UNCHANGED <<payload, phase, persisted, playerVars, chatVars>>

\* the closure of the stream without the if (assistantContent) of line 120
StreamClosePersistAlways ==
    /\ phase = "reading"
    /\ wire = <<>>
    /\ phase' = "closed"
    /\ persisted' = Append(persisted, assistantContent)
    /\ UNCHANGED <<payload, wire, buf, assistantContent, snapshots, doneSeen, accAtDone>>
    /\ UNCHANGED <<playerVars, chatVars>>

\* const { done } = await reader.read(); if (done) break; then lines 120-124:
\* the assistant message is inserted if assistantContent is not empty
StreamClose ==
    /\ phase = "reading"
    /\ wire = <<>>
    /\ phase' = "closed"
    /\ persisted' = IF assistantContent # <<>>
                    THEN Append(persisted, assistantContent)
                    ELSE persisted
    /\ UNCHANGED <<payload, wire, buf, assistantContent, snapshots, doneSeen, accAtDone>>
    /\ UNCHANGED <<playerVars, chatVars>>

\* await reader.read() rejects (the connection breaks): the catch of line
\* 126 shows the toast, nothing is inserted
StreamError ==
    /\ phase = "reading"
    /\ phase' = "failed"
    /\ toasts' = toasts + 1
    /\ UNCHANGED <<payload, wire, buf, assistantContent, snapshots, persisted,
                   doneSeen, accAtDone>>
    /\ UNCHANGED <<playerVars, sendPc, caller, isStreaming, loadingAction,
                   hasContent, messages, failure>>

----------------------------------------------------------------------------
(* The slide player: VideoPlayer.tsx *)

FallbackMs == 4000      \* durationRef.current = 4000 when muted
InitialDurationMs == 5000
FloorMs == 3000
WordsPerMinute == 140

Min(a, b) == IF a < b THEN a ELSE b
Max(a, b) == IF a > b THEN a ELSE b

\* slides[index].narration.split(/\s+/).length of the presentation played:
\* narrations of 7 and 14 words alternate
WordCount(index) == IF index % 2 = 0 THEN 7 ELSE 14

\* Math.max((wordCount / 140) * 60 * 1000, 3000)
EstimatedMs(index) == Max((WordCount(index) * 60 * 1000) \div WordsPerMinute, FloorMs)

\* elapsed / durationRef.current without the Math.min(..., 1)
ProgressUnclamped(steps, duration) == (steps * StepMs * 1000) \div duration

\* Math.min(elapsed / durationRef.current, 1), in thousandths
Progress(steps, duration) == Min((steps * StepMs * 1000) \div duration, 1000)

NoInterval == [idx |-> -1, muted |-> FALSE]     \* intervalRef.current = null

\* The component's state, refs, timers and the engine, as one record
P ==
    [currentSlide |-> currentSlide, isPlaying |-> isPlaying, isMuted |-> isMuted,
     slideProgress |-> slideProgress, showControls |-> showControls,
     intervalRef |-> intervalRef, intervals |-> intervals, elapsed |-> elapsed,
     durationRef |-> durationRef, controlsTimer |-> controlsTimer,
     queue |-> queue, cancelled |-> cancelled, timeouts |-> timeouts,
     mounted |-> mounted]

\* The state after a callback ran and React rendered; click tells whether the
\* callback was a click inside the player's surface
CommitBy(n, op, idx, click) ==
    /\ currentSlide' = n.currentSlide
    /\ isPlaying' = n.isPlaying
    /\ isMuted' = n.isMuted
    /\ slideProgress' = n.slideProgress
    /\ showControls' = n.showControls
    /\ intervalRef' = n.intervalRef
    /\ intervals' = n.intervals
    /\ elapsed' = n.elapsed
    /\ durationRef' = n.durationRef
    /\ controlsTimer' = n.controlsTimer
    /\ queue' = n.queue
    /\ cancelled' = n.cancelled
    /\ timeouts' = n.timeouts
    /\ mounted' = n.mounted
    /\ ev' = [op |-> op, idx |-> idx, wasPlaying |-> isPlaying, click |-> click]
    /\ handsOff' = (handsOff \/ op = "leave")
    /\ UNCHANGED <<slideCount, streamVars, chatVars>>

Commit(n, op, idx) == CommitBy(n, op, idx, FALSE)

\* speechSynthesis.cancel(): the queue is emptied; the engine still owes the
\* utterance it was speaking an end or error event
SpeechCancel(s) == [s EXCEPT !.queue = {}, !.cancelled = @ \cup s.queue]

\* if (intervalRef.current) clearInterval(intervalRef.current)
ClearInterval(s) == [s EXCEPT !.intervals = @ \ {s.intervalRef}]

\* stopSpeech, lines 41-45
StopSpeech(s) == [ClearInterval(SpeechCancel(s)) EXCEPT !.slideProgress = 0]

\* speakSlide without the stopSpeech() of line 48
SpeakSlideNoStop(s, index, muted) ==
    LET iv == [idx |-> index, muted |-> muted \/ index \notin 0..(slideCount - 1)]
    IN  IF iv.muted
        THEN [s EXCEPT !.durationRef = FallbackMs, !.elapsed = 0,
                       !.intervalRef = iv, !.intervals = @ \cup {iv}]
        ELSE [s EXCEPT !.durationRef = EstimatedMs(index), !.elapsed = 0,
                       !.intervalRef = iv, !.intervals = @ \cup {iv},
                       !.queue = @ \cup {index}]

\* speakSlide(index), lines 47-106, of a render whose isMuted is muted
SpeakSlide(s, index, muted) ==
    LET t  == StopSpeech(s)
        iv == [idx |-> index, muted |-> muted \/ index \notin 0..(slideCount - 1)]
    IN  IF iv.muted
        THEN [t EXCEPT !.durationRef = FallbackMs, !.elapsed = 0,
                       !.intervalRef = iv, !.intervals = @ \cup {iv}]
        ELSE [t EXCEPT !.durationRef = EstimatedMs(index), !.elapsed = 0,
                       !.intervalRef = iv, !.intervals = @ \cup {iv},
                       !.queue = @ \cup {index}]

\* resetControlsTimer without its setShowControls(true)
ResetControlsTimerNoShow(s, playing) == [s EXCEPT !.controlsTimer = playing]

\* resetControlsTimer, lines 121-127, of a render whose isPlaying is playing
ResetControlsTimer(s, playing) ==
    [s EXCEPT !.showControls = TRUE, !.controlsTimer = playing]

\* A callback that runs after the unmount: its setState calls have no effect
Unmounted(o, n) ==
    [n EXCEPT !.currentSlide = o.currentSlide, !.isPlaying = o.isPlaying,
              !.isMuted = o.isMuted, !.slideProgress = o.slideProgress,
              !.showControls = o.showControls]

\* The cleanup of lines 112-118, run when the component unmounts
UnmountBody(s) ==
    [ClearInterval(SpeechCancel(s)) EXCEPT !.controlsTimer = FALSE, !.mounted = FALSE]

\* The effects without the effect of lines 129-131
EffectsNoControlsReset(o, n) ==
    IF ~n.mounted THEN Unmounted(o, n) ELSE
    IF /\ \/ n.currentSlide # o.currentSlide
          \/ n.isPlaying # o.isPlaying
          \/ n.isMuted # o.isMuted
       /\ n.isPlaying
    THEN SpeakSlide(n, n.currentSlide, n.isMuted)
    ELSE n

\* The effects React runs after the render that follows a batch of updates:
\* lines 108-110 when currentSlide, isPlaying or speakSlide (that is isMuted)
\* changed, then lines 129-131 when isPlaying changed.  o is the state of the
\* previous render, n the state being rendered.  Once the component is
\* unmounted React drops the state updates of a callback and renders nothing:
\* the callback's writes to refs, timers and the engine remain.
Effects(o, n) ==
    IF ~n.mounted THEN Unmounted(o, n) ELSE
    LET a == IF /\ \/ n.currentSlide # o.currentSlide
                   \/ n.isPlaying # o.isPlaying
                   \/ n.isMuted # o.isMuted
                /\ n.isPlaying
             THEN SpeakSlide(n, n.currentSlide, n.isMuted)
             ELSE n
    IN  IF n.isPlaying # o.isPlaying THEN ResetControlsTimer(a, n.isPlaying) ELSE a

\* A click on a button bubbles to the onClick of line 171, bound to the
\* resetControlsTimer of the render the click happened in
Bubble(o, n, viaClick) == IF viaClick THEN ResetControlsTimer(n, o.isPlaying) ELSE n

\* handlePlay, line 133
PlayBody(s) == [s EXCEPT !.isPlaying = TRUE]

\* handlePause, line 134
PauseBody(s) == [ClearInterval(SpeechCancel(s)) EXCEPT !.isPlaying = FALSE]

\* handleStop without its setCurrentSlide(0)
StopBodyKeepSlide(s) == [StopSpeech(s) EXCEPT !.isPlaying = FALSE]

\* handleStop, line 135
StopBody(s) == [StopSpeech(s) EXCEPT !.isPlaying = FALSE, !.currentSlide = 0]

\* goToSlide without the range check of line 138
GoToSlideBodyNoGuard(s, index) ==
    LET t == [StopSpeech(s) EXCEPT !.currentSlide = index]
    IN  IF s.isPlaying THEN SpeakSlide(t, index, s.isMuted) ELSE t

\* goToSlide without the stopSpeech() of line 139
GoToSlideBodyNoReset(s, index) ==
    IF index < 0 \/ index >= slideCount THEN s
    ELSE LET t == [s EXCEPT !.currentSlide = index]
         IN  IF s.isPlaying THEN SpeakSlide(t, index, s.isMuted) ELSE t

\* goToSlide, lines 137-142
GoToSlideBody(s, index) ==
    IF index < 0 \/ index >= slideCount THEN s
    ELSE LET t == [StopSpeech(s) EXCEPT !.currentSlide = index]
         IN  IF s.isPlaying THEN SpeakSlide(t, index, s.isMuted) ELSE t

\* toggleMute without the setIsMuted of line 145
ToggleMuteNoFlip(s) == IF ~s.isMuted THEN SpeechCancel(s) ELSE s

\* toggleMute, lines 144-147
ToggleMuteBody(s) ==
    LET t == [s EXCEPT !.isMuted = ~s.isMuted]
    IN  IF ~s.isMuted THEN SpeechCancel(t) ELSE t

\* The interval callback of the muted branch, lines 53-68
MutedTickBody(s, iv) ==
    LET progress == Progress(s.elapsed, s.durationRef)
        t == [s EXCEPT !.slideProgress = progress]
    IN  IF progress >= 1000
        THEN [ClearInterval(t) EXCEPT !.timeouts = @ \cup {iv.idx}]
        ELSE t

\* The interval callback of the audible branch, lines 82-85
AudibleTickBody(s) ==
    [s EXCEPT !.slideProgress = Progress(s.elapsed, s.durationRef)]

\* the delayed callback without its setSlideProgress(0)
AdvanceBodyKeepProgress(s, index) ==
    IF index < slideCount - 1
    THEN [s EXCEPT !.currentSlide = index + 1]
    ELSE [s EXCEPT !.isPlaying = FALSE]

\* the delayed callback without the test of lines 60 and 91
AdvanceBodyUnguarded(s, index) == [s EXCEPT !.currentSlide = index + 1]

\* the delayed callback staying on the slide that completed
AdvanceBodyRepeat(s, index) ==
    IF index < slideCount - 1
    THEN s
    ELSE [s EXCEPT !.isPlaying = FALSE, !.slideProgress = 0]

\* The delayed callback of lines 59-66 and 90-97 for the slide index
AdvanceBody(s, index) ==
    IF index < slideCount - 1
    THEN [s EXCEPT !.currentSlide = index + 1]
    ELSE [s EXCEPT !.isPlaying = FALSE, !.slideProgress = 0]

\* utterance.onend, lines 87-98
OnEndBody(s, index) ==
    [ClearInterval(s) EXCEPT !.slideProgress = 1000, !.timeouts = @ \cup {index}]

\* utterance.onerror handled like onend
OnErrorAsEnd(s, index) == OnEndBody(s, index)

\* utterance.onerror, lines 100-103
OnErrorBody(s, index) == [ClearInterval(s) EXCEPT !.isPlaying = FALSE]

PlayerIdle ==
    /\ slideCount = 1
    /\ currentSlide = 0
    /\ isPlaying = FALSE
    /\ isMuted = FALSE
    /\ slideProgress = 0
    /\ showControls = TRUE
    /\ intervalRef = NoInterval
    /\ intervals = {}
    /\ elapsed = 0
    /\ durationRef = InitialDurationMs
    /\ controlsTimer = FALSE
    /\ queue = {}
    /\ cancelled = {}
    /\ timeouts = {}
    /\ mounted = TRUE
    /\ ev = [op |-> "mount", idx |-> 0, wasPlaying |-> FALSE, click |-> FALSE]
    /\ handsOff = FALSE

\* The first render of <VideoPlayer slides={...}/>, lines 28-36
PlayerInit ==
    /\ slideCount \in 1..MaxSlides
    /\ currentSlide = 0
    /\ isPlaying = FALSE
    /\ isMuted = FALSE
    /\ slideProgress = 0
    /\ showControls = TRUE
    /\ intervalRef = NoInterval
    /\ intervals = {}
    /\ elapsed = 0
    /\ durationRef = InitialDurationMs
    /\ controlsTimer = FALSE
    /\ queue = {}
    /\ cancelled = {}
    /\ timeouts = {}
    /\ mounted = TRUE
    /\ ev = [op |-> "mount", idx |-> 0, wasPlaying |-> FALSE, click |-> FALSE]
    /\ handsOff = FALSE

\* The play button (rendered while not playing, line 327) or the space key
HandlePlay(viaClick) ==
    /\ mounted /\ ~handsOff
    /\ ~isPlaying
    /\ viaClick => showControls
    /\ CommitBy(Effects(P, Bubble(P, PlayBody(P), viaClick)), "play", currentSlide,
                viaClick)

\* The pause button (rendered while playing) or the space key
HandlePause(viaClick) ==
    /\ mounted /\ ~handsOff
    /\ isPlaying
    /\ viaClick => showControls
    /\ CommitBy(Effects(P, Bubble(P, PauseBody(P), viaClick)), "pause", currentSlide,
                viaClick)

\* The stop button, line 337
HandleStop ==
    /\ mounted /\ ~handsOff
    /\ showControls
    /\ CommitBy(Effects(P, Bubble(P, StopBody(P), TRUE)), "stop", currentSlide, TRUE)

\* goToSlide(index): the arrow keys (currentSlide - 1, currentSlide + 1, also
\* past either end), the arrow buttons, or a segment of the progress bar
GoToSlide(index, viaClick) ==
    /\ mounted /\ ~handsOff
    /\ viaClick => showControls /\ index \in 0..(slideCount - 1)
    /\ ~viaClick => index \in {currentSlide - 1, currentSlide + 1}
    /\ CommitBy(Effects(P, Bubble(P, GoToSlideBody(P, index), viaClick)), "goToSlide",
                index, viaClick)

\* The mute button or the m key
ToggleMute(viaClick) ==
    /\ mounted /\ ~handsOff
    /\ viaClick => showControls
    /\ CommitBy(Effects(P, Bubble(P, ToggleMuteBody(P), viaClick)), "toggleMute",
                currentSlide, viaClick)

\* onMouseMove / onClick of the player's surface, lines 170-171
PointerActivity ==
    /\ mounted /\ ~handsOff
    /\ Commit(ResetControlsTimer(P, isPlaying), "pointer", currentSlide)

\* The timeout of line 125 fires
ControlsTimeout ==
    /\ controlsTimer
    /\ Commit([P EXCEPT !.showControls = FALSE, !.controlsTimer = FALSE],
              "hideControls", currentSlide)

\* onClose (the Escape key of line 152 or the close button): the parent
\* unmounts the player and React runs the cleanup of lines 112-118
Close ==
    /\ mounted /\ ~handsOff
    /\ Commit(UnmountBody(P), "close", currentSlide)

\* The user gives no input from here on
UserLeaves ==
    /\ mounted /\ ~handsOff
    /\ Commit(P, "leave", currentSlide)

\* Time passes (Date.now() grows) under the intervals of a mounted player
TimePasses ==
    /\ mounted
    /\ elapsed < MaxSteps
    /\ Commit([P EXCEPT !.elapsed = elapsed + 1], "time", currentSlide)

\* A running interval fires
Tick(iv) ==
    /\ iv \in intervals
    /\ IF iv.muted
       THEN Commit(Effects(P, MutedTickBody(P, iv)), "tick", iv.idx)
       ELSE Commit(Effects(P, AudibleTickBody(P)), "tick", iv.idx)

\* The delayed advance scheduled when slide index completed fires
AdvanceTimeout(index) ==
    /\ index \in timeouts
    /\ Commit(Effects(P, AdvanceBody([P EXCEPT !.timeouts = @ \ {index}], index)),
              "advance", index)

\* The engine finishes speaking the utterance of slide index
NarrationEnd(index) ==
    /\ index \in queue
    /\ Commit(Effects(P, OnEndBody([P EXCEPT !.queue = @ \ {index}], index)),
              "end", index)

\* The engine fails on the utterance of slide index
NarrationError(index) ==
    /\ index \in queue
    /\ Commit(Effects(P, OnErrorBody([P EXCEPT !.queue = @ \ {index}], index)),
              "error", index)

\* The engine delivers the end event of an utterance cancel() removed
LateEnd(index) ==
    /\ index \in cancelled
    /\ Commit(Effects(P, OnEndBody([P EXCEPT !.cancelled = @ \ {index}], index)),
              "lateEnd", index)

\* The engine delivers the error event of an utterance cancel() removed
LateError(index) ==
    /\ index \in cancelled
    /\ Commit(Effects(P, OnErrorBody([P EXCEPT !.cancelled = @ \ {index}], index)),
              "lateError", index)

----------------------------------------------------------------------------
(* The callers of the assembler around their awaits: ChatPanel.handleSend,
   lines 52-130, and StudioPanel.handleAction, lines 110-178 *)

\* The invocations of the two handlers, numbered in the order of the calls
Sends == 1..MaxSends

\* A response that makes the request fail: fetch rejects, the response has
\* no body, or its status is not 2xx; json tells whether the body of a
\* non-2xx response parses as JSON and error is its error field ("" when the
\* parsed object has none)
FailedResponses ==
    {[kind |-> "rejected", status |-> 0, json |-> FALSE, error |-> ""],
     [kind |-> "nobody", status |-> 200, json |-> FALSE, error |-> ""]}
    \cup [kind : {"http"}, status : {429, 500}, json : {FALSE}, error : {""}]
    \cup [kind : {"http"}, status : {429, 500}, json : {TRUE},
          error : {"", "Rate limit exceeded"}]

NoResponse == [kind |-> "none", status |-> 0, json |-> FALSE, error |-> ""]

NoFailure == [caller |-> "none", resp |-> NoResponse, message |-> "",
              content |-> FALSE]

\* `Error ${resp.status}`
StatusMessage(status) == "Error " \o ToString(status)

\* What a rejected fetch throws, and the Error of line 88 / 138
TransportMessage(r) == IF r.kind = "rejected" THEN "Failed to fetch" ELSE "No stream"

\* ChatPanel lines 84-87: resp.json().catch(() => ({ error: "Request failed" }))
\* and err.error || `Error ${resp.status}`
ChatFailureMessage(r) ==
    IF r.kind # "http" THEN TransportMessage(r)
    ELSE LET err == IF r.json THEN r.error ELSE "Request failed"
         IN  IF err # "" THEN err ELSE StatusMessage(r.status)

\* StudioPanel line 137: throw new Error(`Error ${resp.status}`)
StudioFailureMessage(r) ==
    IF r.kind # "http" THEN TransportMessage(r) ELSE StatusMessage(r.status)

\* The description of the toast of the catch block, e.message
FailureMessage(c, r) ==
    IF c = "chat" THEN ChatFailureMessage(r) ELSE StudioFailureMessage(r)

UserMessage(i) == [role |-> "user", req |-> i]
AssistantMessage(i) == [role |-> "assistant", req |-> i]

\* The updater of ChatPanel lines 110-114 for the assistant id of invocation
\* i: the entry is rewritten when it is the last one, else one is appended
ShowSnapshot(prev, i) ==
    IF prev # <<>> /\ prev[Len(prev)] = AssistantMessage(i)
    THEN prev
    ELSE Append(prev, AssistantMessage(i))

ChatIdle ==
    /\ sendPc = [i \in Sends |-> "idle"]
    /\ caller = [i \in Sends |-> "none"]
    /\ isStreaming = FALSE
    /\ loadingAction = FALSE
    /\ hasContent = [i \in Sends |-> FALSE]
    /\ messages = <<>>
    /\ failure = NoFailure
    /\ toasts = 0

\* The first render of <ChatPanel/> and <StudioPanel/>
ChatInit == ChatIdle

\* The guard of line 54 reading isStreaming
SendGuard == ~isStreaming

\* The call after the calls before it
Called(i) == sendPc[i] = "idle" /\ (i > 1 => sendPc[i - 1] # "idle")

\* the finally blocks leaving the flags as they are
KeepBusy(i) == UNCHANGED <<isStreaming, loadingAction>>

\* finally: setIsStreaming(false) of ChatPanel line 128, setLoadingAction(null)
\* of StudioPanel lines 122 and 176
ClearBusy(i) ==
    IF caller[i] = "chat"
    THEN isStreaming' = FALSE /\ UNCHANGED loadingAction
    ELSE loadingAction' = FALSE /\ UNCHANGED isStreaming

\* handleSend is called (Enter, the send button, a suggestion) with a
\* non-empty text: line 54 returns when isStreaming, else the user message
\* is shown and the insert of line 60 is awaited
SendStart(i) ==
    /\ Called(i)
    /\ caller' = [caller EXCEPT ![i] = "chat"]
    /\ IF SendGuard
       THEN /\ Len(messages) < MaxMessages
            /\ messages' = Append(messages, UserMessage(i))
            /\ sendPc' = [sendPc EXCEPT ![i] = "insert"]
       ELSE /\ sendPc' = [sendPc EXCEPT ![i] = "returned"]
            /\ UNCHANGED messages
    /\ UNCHANGED <<isStreaming, loadingAction, hasContent, failure, toasts,
                   streamVars, playerVars>>

\* handleAction is called for an action other than video: line 116 returns
\* when loadingAction is set, else line 117 sets it and fetchSources is awaited
ActionStart(i) ==
    /\ Called(i)
    /\ caller' = [caller EXCEPT ![i] = "studio"]
    /\ IF loadingAction
       THEN /\ sendPc' = [sendPc EXCEPT ![i] = "returned"]
            /\ UNCHANGED loadingAction
       ELSE /\ sendPc' = [sendPc EXCEPT ![i] = "sources"]
            /\ loadingAction' = TRUE
    /\ UNCHANGED <<isStreaming, hasContent, messages, failure, toasts,
                   streamVars, playerVars>>

\* The insert of lines 60-62 settles; the query of lines 64-67 is awaited
InsertSettles(i) ==
    /\ sendPc[i] = "insert"
    /\ sendPc' = [sendPc EXCEPT ![i] = "sources"]
    /\ UNCHANGED <<caller, isStreaming, loadingAction, hasContent, messages,
                   failure, toasts, streamVars, playerVars>>

\* The sources query settles and the request is issued: in handleSend after
\* setIsStreaming(true), in handleAction when fetchSources gave sources
SourcesSettle(i) ==
    /\ sendPc[i] = "sources"
    /\ isStreaming' = (isStreaming \/ caller[i] = "chat")
    /\ sendPc' = [sendPc EXCEPT ![i] = "fetch"]
    /\ UNCHANGED <<caller, loadingAction, hasContent, messages, failure, toasts,
                   streamVars, playerVars>>

\* fetchSources finds no sources: its toast, and line 122 returns
NoSources(i) ==
    /\ sendPc[i] = "sources"
    /\ caller[i] = "studio"
    /\ toasts < MaxToasts
    /\ toasts' = toasts + 1
    /\ ClearBusy(i)
    /\ sendPc' = [sendPc EXCEPT ![i] = "settled"]
    /\ UNCHANGED <<caller, hasContent, messages, failure, streamVars, playerVars>>

\* The response arrives with a 2xx status and a body: the reader
FetchOk(i) ==
    /\ sendPc[i] = "fetch"
    /\ sendPc' = [sendPc EXCEPT ![i] = "read"]
    /\ UNCHANGED <<caller, isStreaming, loadingAction, hasContent, messages,
                   failure, toasts, streamVars, playerVars>>

\* fetch rejects, the status is not 2xx or there is no body: the handler
\* throws, the catch block shows the toast and finally clears the flag
FetchFails(i, r) ==
    /\ sendPc[i] = "fetch"
    /\ toasts < MaxToasts
    /\ toasts' = toasts + 1
    /\ failure' = [caller |-> caller[i], resp |-> r,
                   message |-> FailureMessage(caller[i], r),
                   content |-> hasContent[i]]
    /\ ClearBusy(i)
    /\ sendPc' = [sendPc EXCEPT ![i] = "settled"]
    /\ UNCHANGED <<caller, hasContent, messages, streamVars, playerVars>>

\* reader.read() gives a chunk; it may carry a non-empty delta, which
\* handleSend shows in the message list
ReadDelivers(i, delta) ==
    /\ sendPc[i] = "read"
    /\ hasContent' = [hasContent EXCEPT ![i] = @ \/ delta]
    /\ IF delta /\ caller[i] = "chat"
       THEN /\ Len(ShowSnapshot(messages, i)) <= MaxMessages
            /\ messages' = ShowSnapshot(messages, i)
       ELSE UNCHANGED messages
    /\ UNCHANGED <<sendPc, caller, isStreaming, loadingAction, failure, toasts,
                   streamVars, playerVars>>

\* reader.read() gives done: handleSend with content awaits the insert of
\* line 121; otherwise the finally block runs
ReadDone(i) ==
    /\ sendPc[i] = "read"
    /\ IF hasContent[i] /\ caller[i] = "chat"
       THEN /\ sendPc' = [sendPc EXCEPT ![i] = "persist"]
            /\ UNCHANGED <<isStreaming, loadingAction>>
       ELSE /\ sendPc' = [sendPc EXCEPT ![i] = "settled"]
            /\ ClearBusy(i)
    /\ UNCHANGED <<caller, hasContent, messages, failure, toasts, streamVars,
                   playerVars>>

\* reader.read() rejects: catch and finally
ReadFails(i) ==
    /\ sendPc[i] = "read"
    /\ toasts < MaxToasts
    /\ toasts' = toasts + 1
    /\ ClearBusy(i)
    /\ sendPc' = [sendPc EXCEPT ![i] = "settled"]
    /\ UNCHANGED <<caller, hasContent, messages, failure, streamVars, playerVars>>

\* The insert of the assistant message settles; finally
PersistSettles(i) ==
    /\ sendPc[i] = "persist"
    /\ ClearBusy(i)
    /\ sendPc' = [sendPc EXCEPT ![i] = "settled"]
    /\ UNCHANGED <<caller, hasContent, messages, failure, toasts, streamVars,
                   playerVars>>

----------------------------------------------------------------------------
(* Specifications *)

StreamNext ==
    \/ \E k \in 1..MaxPayloadLen : ReadChunk(k)
    \/ StreamClose
    \/ StreamError

\* The assembler alone, over every payload and every chunking
StreamStart == StreamInit /\ PlayerIdle /\ ChatIdle

StreamSpec == StreamStart /\ [][StreamNext]_vars

Next ==
    \/ \E c \in BOOLEAN : HandlePlay(c)
    \/ \E c \in BOOLEAN : HandlePause(c)
    \/ HandleStop
    \/ \E i \in -1..MaxSlides, c \in BOOLEAN : GoToSlide(i, c)
    \/ \E c \in BOOLEAN : ToggleMute(c)
    \/ PointerActivity
    \/ ControlsTimeout
    \/ Close
    \/ TimePasses
    \/ \E iv \in intervals : Tick(iv)
    \/ \E i \in 0..(MaxSlides - 1) : AdvanceTimeout(i)
    \/ \E i \in 0..(MaxSlides - 1) : NarrationEnd(i)
    \/ \E i \in 0..(MaxSlides - 1) : NarrationError(i)
    \/ \E i \in 0..(MaxSlides - 1) : LateEnd(i)
    \/ \E i \in 0..(MaxSlides - 1) : LateError(i)

\* The player alone
Init == PlayerInit /\ StreamIdle /\ ChatIdle

Spec == Init /\ [][Next]_vars

FairNext ==
    \/ Next
    \/ UserLeaves

\* The player with a user who may walk away, and an event loop that runs
\* every interval and timeout callback that is due while time passes
FairSpec ==
    /\ Init
    /\ [][FairNext]_vars
    /\ WF_vars(TimePasses)
    /\ WF_vars(\E iv \in intervals : Tick(iv))
    /\ WF_vars(\E i \in 0..(MaxSlides - 1) : AdvanceTimeout(i))

ChatNext ==
    \/ \E i \in Sends : SendStart(i)
    \/ \E i \in Sends : ActionStart(i)
    \/ \E i \in Sends : InsertSettles(i)
    \/ \E i \in Sends : SourcesSettle(i)
    \/ \E i \in Sends : NoSources(i)
    \/ \E i \in Sends : FetchOk(i)
    \/ \E i \in Sends, r \in FailedResponses : FetchFails(i, r)
    \/ \E i \in Sends, d \in BOOLEAN : ReadDelivers(i, d)
    \/ \E i \in Sends : ReadDone(i)
    \/ \E i \in Sends : ReadFails(i)
    \/ \E i \in Sends : PersistSettles(i)

\* The requests of the chat panel and of the studio panel alone
ChatStart == ChatInit /\ StreamIdle /\ PlayerIdle

ChatSpec == ChatStart /\ [][ChatNext]_vars

----------------------------------------------------------------------------
(* Claims about the stream assembler, checked under StreamSpec *)

\* What the assembler accumulates when the whole payload is one chunk
OneChunkText(p) == DrainLines(p, <<>>, <<>>, FALSE).acc

\* C1 (as claimed): chunk-boundary independence. Once the stream is closed,
\* the accumulated text equals the text accumulated from the same payload
\* delivered as a single chunk, wherever the chunk boundaries fell.
C1_ChunkIndependence ==
    phase = "closed" => assistantContent = OneChunkText(payload)

IsProperPrefix(s, t) == Len(s) < Len(t) /\ SubSeq(t, 1, Len(s)) = s

\* C2: monotonic accumulation. Every emitted snapshot properly extends the
\* snapshot emitted before it, and the latest snapshot is the accumulated
\* text: nothing emitted earlier is shortened or rewritten.
C2_MonotonicSnapshots ==
    /\ \A i \in 1..(Len(snapshots) - 1) : IsProperPrefix(snapshots[i], snapshots[i + 1])
    /\ snapshots # <<>> => snapshots[Len(snapshots)] = assistantContent

\* C2 witness: a closed stream that emitted two snapshots in two chunks
C2_Witness ==
    /\ phase = "closed"
    /\ Len(snapshots) = 2
    /\ snapshots[1] = <<"a">>
    /\ snapshots[2] = <<"a", "b">>

\* C3 (as claimed): termination on the sentinel. Once a data: [DONE] line
\* has been processed, the accumulated text stays what it was at that
\* moment: no later delta is appended and no later snapshot emitted.
C3_NothingAfterDone ==
    doneSeen => assistantContent = accAtDone


\* The wire format of section 6 of the specification, read line by line
\* without the assembler's own helpers: the complete lines of a text (what
\* precedes each "\n", a trailing "\r" removed) and what follows the last "\n"
RECURSIVE NextNL(_, _)
NextNL(t, i) ==
    IF i > Len(t) THEN 0 ELSE IF t[i] = NL THEN i ELSE NextNL(t, i + 1)

RECURSIVE WireLinesFrom(_, _)
WireLinesFrom(t, start) ==
    LET nl == NextNL(t, start) IN
    IF nl = 0 THEN <<>>
    ELSE LET last == IF nl > start /\ t[nl - 1] = CR THEN nl - 2 ELSE nl - 1
         IN  <<SubSeq(t, start, last)>> \o WireLinesFrom(t, nl + 1)

CompleteLines(t) == WireLinesFrom(t, 1)

RECURSIVE OpenTailFrom(_, _)
OpenTailFrom(t, i) ==
    IF i = 0 \/ t[i] = NL THEN SubSeq(t, i + 1, Len(t)) ELSE OpenTailFrom(t, i - 1)

OpenTail(t) == OpenTailFrom(t, Len(t))

IsDoneLine(line) == line = DataPrefix \o DoneText

IsDeltaLine(line) ==
    /\ Len(line) >= Len(DataPrefix) + Len(EnvelopeHead) + Len(EnvelopeTail)
    /\ SubSeq(line, 1, Len(DataPrefix) + Len(EnvelopeHead)) = DataPrefix \o EnvelopeHead
    /\ SubSeq(line, Len(line) - Len(EnvelopeTail) + 1, Len(line)) = EnvelopeTail

DeltaOf(line) ==
    SubSeq(line, Len(DataPrefix) + Len(EnvelopeHead) + 1, Len(line) - Len(EnvelopeTail))

\* A data line whose payload is neither [DONE] nor JSON
IsMalformedLine(line) == line = DataPrefix \o TruncatedJson

\* The non-empty deltas of the data lines, in order; up to the first [DONE]
\* line when untilDone
RECURSIVE Deltas(_, _)
Deltas(lines, untilDone) ==
    IF lines = <<>> \/ (untilDone /\ IsDoneLine(Head(lines))) THEN <<>>
    ELSE IF IsDeltaLine(Head(lines)) /\ DeltaOf(Head(lines)) # <<>>
         THEN <<DeltaOf(Head(lines))>> \o Deltas(Tail(lines), untilDone)
         ELSE Deltas(Tail(lines), untilDone)

\* "Hel", "lo" |-> "Hel", "Hello"
RECURSIVE RunningTexts(_, _)
RunningTexts(deltas, acc) ==
    IF deltas = <<>> THEN <<>>
    ELSE <<acc \o Head(deltas)>> \o RunningTexts(Tail(deltas), acc \o Head(deltas))

Last(texts) == IF texts = <<>> THEN <<>> ELSE texts[Len(texts)]

IsPrefixSeq(s, t) == Len(s) <= Len(t) /\ SubSeq(t, 1, Len(s)) = s

\* What the reader has delivered so far
Delivered == SubSeq(payload, 1, Len(payload) - Len(wire))

\* A malformed data line comes before any [DONE] line
RECURSIVE MalformedBeforeDone(_)
MalformedBeforeDone(lines) ==
    /\ lines # <<>>
    /\ ~IsDoneLine(Head(lines))
    /\ IsMalformedLine(Head(lines)) \/ MalformedBeforeDone(Tail(lines))

\* C16 (as claimed): a data line that fails JSON parsing does not abort the
\* stream or drop data. When the stream closes, the accumulated text is the
\* concatenation of the deltas of all well-formed data lines before [DONE]
\* (or closure), those that arrived after the malformed line included.
C16_MalformedLineRecovered ==
    (phase = "closed" /\ MalformedBeforeDone(CompleteLines(payload)))
    => assistantContent = Last(RunningTexts(Deltas(CompleteLines(payload), TRUE), <<>>))

\* Only complete lines that the assembler ignores or parses, then [DONE]
CleanPayload(p) ==
    LET lines == CompleteLines(p) IN
    /\ OpenTail(p) = <<>>
    /\ lines # <<>>
    /\ IsDoneLine(lines[Len(lines)])
    /\ \A i \in 1..(Len(lines) - 1) :
            ~IsDoneLine(lines[i]) /\ ~IsMalformedLine(lines[i])

\* C17: for a stream of complete well-formed lines followed by data: [DONE],
\* whatever the chunking, the final text is the in-order concatenation of
\* the non-empty deltas and exactly one snapshot was emitted per non-empty
\* delta, each the text accumulated up to that delta: "Hel", "lo" give the
\* snapshots "Hel", "Hello".
C17_CleanStreamAssembled ==
    /\ (phase = "closed" /\ CleanPayload(payload))
        => /\ snapshots = RunningTexts(Deltas(CompleteLines(payload), TRUE), <<>>)
           /\ assistantContent = Last(snapshots)
    /\ (phase = "closed" /\ payload = ScenarioA)
        => /\ snapshots = << <<"H","e","l">>, <<"H","e","l","l","o">> >>
           /\ assistantContent = <<"H","e","l","l","o">>

\* C17 witness: comment, blank, prefix-less and empty-delta lines around the
\* deltas "a" and "b", closed after [DONE], gave the snapshots "a", "ab"
C17_Witness ==
    /\ phase = "closed"
    /\ payload = ScenarioMixed
    /\ doneSeen
    /\ snapshots = << <<"a">>, <<"a","b">> >>
    /\ assistantContent = <<"a","b">>

\* No [DONE] and no malformed line: nothing makes the assembler leave its
\* line loop early
NoEarlyExit(p) ==
    \A i \in 1..Len(CompleteLines(p)) :
        ~IsDoneLine(CompleteLines(p)[i]) /\ ~IsMalformedLine(CompleteLines(p)[i])

\* C18: partial-line buffering. What has been received after the last "\n"
\* is the end of buf: it is not dropped. The snapshots come from complete
\* lines only, in order. And when nothing makes the line loop exit early,
\* the snapshots are exactly those of the complete lines received so far:
\* a line split across chunks gives no snapshot before its newline has
\* arrived and exactly one once it has.
C18_PartialLineBuffered ==
    /\ phase = "reading" => EndsWith(buf, OpenTail(Delivered))
    /\ IsPrefixSeq(snapshots, RunningTexts(Deltas(CompleteLines(Delivered), FALSE), <<>>))
    /\ NoEarlyExit(payload)
        => /\ snapshots = RunningTexts(Deltas(CompleteLines(Delivered), FALSE), <<>>)
           /\ phase = "reading" => buf = OpenTail(Delivered)

\* C18 witness: the delta "a" was emitted and the next data line waits in
\* buf, cut in the middle of its JSON, while the stream is open
C18_Witness ==
    /\ phase = "reading"
    /\ wire # <<>>
    /\ snapshots = << <<"a">> >>
    /\ buf = DataPrefix \o SubSeq(EnvelopeHead, 1, 10)

\* C19: closure without [DONE] is a normal end. The text is the one
\* accumulated (the last snapshot), no error toast was shown, and the
\* assistant message was inserted, once and with that text, if and only if
\* the text is not empty.
C19_ClosureIsNormalEnd ==
    (phase = "closed" /\ ~doneSeen)
    => /\ toasts = 0
       /\ assistantContent = Last(snapshots)
       /\ assistantContent = <<>> => persisted = <<>>
       /\ assistantContent # <<>> => persisted = <<assistantContent>>

\* C19 witness: the stream closed without [DONE] after the delta "a", with
\* an unterminated line left in buf; "a" was inserted and no toast shown
C19_Witness ==
    /\ phase = "closed"
    /\ ~doneSeen
    /\ assistantContent = <<"a">>
    /\ persisted = << <<"a">> >>
    /\ buf # <<>>
    /\ toasts = 0

----------------------------------------------------------------------------
(* Claims about the player, checked under Spec *)

\* C4: single active narration. In every reachable state the engine speaks at
\* most one utterance and the browser runs at most one progress interval;
\* the running interval is the one intervalRef holds and the utterance is
\* the one started with it, so every narration start has cancelled and
\* cleared what ran before.
C4_SingleNarration ==
    /\ Cardinality(queue) <= 1
    /\ Cardinality(intervals) <= 1
    /\ intervals \subseteq {intervalRef}
    /\ queue \subseteq {intervalRef.idx}

\* C4 witness: goToSlide while playing aloud replaced a narration that had
\* been cancelled by the one of the new slide
C4_Witness ==
    /\ ev.op = "goToSlide" /\ ev.wasPlaying
    /\ isPlaying /\ ~isMuted
    /\ currentSlide = 1
    /\ queue = {1}
    /\ intervals = {[idx |-> 1, muted |-> FALSE]}
    /\ 0 \in cancelled

C7_StopLeavesStopped ==
    ev.op = "stop" =>
        /\ ~isPlaying
        /\ currentSlide = 0
        /\ slideProgress = 0
        /\ queue = {}
        /\ intervals = {}

\* C7 witness: stop while Playing with the completion of slide 1 reached
\* (its delayed advance still pending)
C7_Witness ==
    /\ ev.op = "stop" /\ ev.wasPlaying /\ ev.idx = 1
    /\ 1 \in timeouts
    /\ currentSlide = 0

\* C8 (as claimed): resume, not restart. play() in the Paused state (right
\* after a pause) with slideProgress = p > 0 returns to Playing on the same
\* slide with slideProgress still p and the elapsed time still what it was.
C8_PlayResumes ==
    [][(ev.op = "pause" /\ ev'.op = "play" /\ slideProgress > 0 /\ slideProgress < 1000)
       => (/\ isPlaying'
           /\ currentSlide' = currentSlide
           /\ slideProgress' = slideProgress
           /\ elapsed' = elapsed)]_vars

TimerEvents == {"tick", "advance", "time", "hideControls"}

\* C9 (as claimed): pause() while Playing sets isPlaying = false, leaves
\* nothing spoken and no interval running, and leaves slideProgress and
\* currentSlide as they were; and slideProgress stays at that value when a
\* timer of the player fires while the player is still Paused.
C9_PauseFreezesProgress ==
    [][/\ (ev'.op = "pause" /\ isPlaying)
            => (/\ ~isPlaying'
                /\ queue' = {} /\ intervals' = {}
                /\ slideProgress' = slideProgress
                /\ currentSlide' = currentSlide)
       /\ (ev.op = "pause" /\ ev'.op \in TimerEvents)
            => slideProgress' = slideProgress]_vars

PlaybackState == <<currentSlide, isPlaying, isMuted, slideProgress, showControls>>
PlayerTimers == <<intervalRef, intervals, elapsed, durationRef, controlsTimer,
                  queue, cancelled, timeouts>>

\* C11: goToSlide(i) with i < 0 or i >= slideCount (ArrowLeft on the first
\* slide, ArrowRight on the last one) changes nothing: the PlaybackState is
\* what it was and no narration, interval or timeout is cancelled or started.
C11_OutOfRangeIgnored ==
    [][(ev'.op = "goToSlide" /\ (ev'.idx < 0 \/ ev'.idx >= slideCount))
       => UNCHANGED <<PlaybackState, PlayerTimers>>]_vars

\* C11 witness: ArrowRight on the last slide while its narration is spoken
C11_Witness ==
    /\ ev.op = "goToSlide" /\ ev.idx = slideCount /\ ev.wasPlaying
    /\ currentSlide = slideCount - 1
    /\ isPlaying /\ ~isMuted
    /\ queue = {currentSlide}
    /\ intervals = {[idx |-> currentSlide, muted |-> FALSE]}

\* C12 (as claimed): teardown. Once the player is closed no interval and no
\* auto-hide timer runs and nothing is spoken; the close leaves no delayed
\* advance pending; and no timer callback of the player runs after the
\* close (the engine's events for the utterance the close cancelled aside).
C12_TeardownCancelsAll ==
    ~mounted =>
        /\ intervals = {}
        /\ ~controlsTimer
        /\ queue = {}
        /\ ev.op = "close" => timeouts = {}
        /\ ev.op \in {"close", "lateEnd", "lateError"}

\* C13 (as claimed): right after stop, or goToSlide in range, called while
\* Playing, no timer of the previous slide is active: no delayed advance is
\* pending and the only interval running is the one just started (none
\* after stop).
C13_NoTimersOfPreviousSlide ==
    (/\ ev.wasPlaying
     /\ \/ ev.op = "stop"
        \/ ev.op = "goToSlide" /\ ev.idx \in 0..(slideCount - 1))
    => /\ timeouts = {}
       /\ intervals \subseteq {intervalRef}
       /\ ev.op = "stop" => intervals = {}

\* C14: goToSlide(i) in range sets currentSlide = i and slideProgress = 0
\* and leaves isPlaying and isMuted alone; while Playing it starts the
\* narration of slide i (the fallback interval alone when muted), and while
\* not Playing it leaves nothing spoken and starts no interval or timeout.
C14_GoToSlideInRange ==
    [][(ev'.op = "goToSlide" /\ ev'.idx \in 0..(slideCount - 1))
       => /\ currentSlide' = ev'.idx
          /\ slideProgress' = 0
          /\ isPlaying' = isPlaying
          /\ isMuted' = isMuted
          /\ isPlaying => /\ intervals' = {[idx |-> ev'.idx, muted |-> isMuted]}
                          /\ queue' = (IF isMuted THEN {} ELSE {ev'.idx})
                          /\ elapsed' = 0
          /\ ~isPlaying => /\ intervals' = {}
                           /\ queue' = {}
                           /\ timeouts' = timeouts
                           /\ controlsTimer' => controlsTimer]_vars

\* C14 witness: goToSlide(1) while Playing muted started the fallback
\* interval of slide 1
C14_Witness ==
    /\ ev.op = "goToSlide" /\ ev.idx = 1 /\ ev.wasPlaying
    /\ isPlaying /\ isMuted
    /\ currentSlide = 1
    /\ slideProgress = 0
    /\ intervals = {[idx |-> 1, muted |-> TRUE]}
    /\ queue = {}

\* C15: auto-advance. The end of the narration of a slide sets the progress
\* to 1 and schedules the delayed advance of that slide; the muted interval
\* schedules it only once 4000 ms have elapsed; and when the delayed advance
\* of slide k < slideCount - 1 fires while Playing on slide k, currentSlide
\* becomes k + 1, slideProgress 0, isPlaying stays true and the narration
\* (or the muted fallback) of slide k + 1 is started.
C15_AutoAdvance ==
    [][/\ (ev'.op = "end" /\ mounted)
            => (ev'.idx \in timeouts' /\ slideProgress' = 1000)
       /\ (ev'.op = "tick" /\ timeouts' # timeouts)
            => (elapsed * StepMs >= FallbackMs /\ timeouts' = timeouts \cup {ev'.idx})
       /\ (/\ ev'.op = "advance" /\ mounted /\ isPlaying
           /\ currentSlide = ev'.idx /\ ev'.idx < slideCount - 1)
            => /\ currentSlide' = ev'.idx + 1
               /\ slideProgress' = 0
               /\ isPlaying'
               /\ elapsed' = 0
               /\ intervals' = {[idx |-> ev'.idx + 1, muted |-> isMuted]}
               /\ queue' = (IF isMuted THEN {} ELSE {ev'.idx + 1})]_vars

\* C15 witness: muted playback advanced from slide 0 to slide 1 when the
\* delayed advance of slide 0 fired
C15_Witness ==
    /\ ev.op = "advance" /\ ev.idx = 0 /\ ev.wasPlaying
    /\ mounted /\ isPlaying /\ isMuted
    /\ currentSlide = 1
    /\ slideProgress = 0
    /\ intervals = {[idx |-> 1, muted |-> TRUE]}
    /\ timeouts = {}

\* C20: toggleMute flips isMuted and changes neither isPlaying nor
\* currentSlide; toggling to muted while Playing cancels the utterance being
\* spoken and leaves nothing spoken.
C20_ToggleMute ==
    [][(ev'.op = "toggleMute")
       => /\ isMuted' = ~isMuted
          /\ isPlaying' = isPlaying
          /\ currentSlide' = currentSlide
          /\ (isPlaying /\ ~isMuted) => (queue' = {} /\ queue \subseteq cancelled')]_vars

\* C20 witness: the narration of slide 1 was cancelled by muting while
\* Playing, and the player is still Playing on slide 1
C20_Witness ==
    /\ ev.op = "toggleMute" /\ ev.wasPlaying
    /\ isPlaying /\ isMuted
    /\ currentSlide = 1
    /\ queue = {}
    /\ 1 \in cancelled

\* C21: controls are visible whenever the player is not playing. In every
\* state with isPlaying false the controls are shown and no auto-hide timer
\* is pending, so the timer can hide the controls only while Playing.
C21_ControlsVisibleWhenNotPlaying ==
    ~isPlaying => (showControls /\ ~controlsTimer)

\* C21 witness: the controls had been hidden while Playing, and a pause by
\* the space key brought them back
C21_Witness ==
    /\ ev.op = "pause" /\ ~ev.click
    /\ ~isPlaying
    /\ showControls /\ ~controlsTimer
    /\ slideProgress > 0

\* The steps the specification counts as activity of a playing player: pointer
\* movement or click, a slide change, a mute toggle, a play/pause change
C22_Activity ==
    \/ ev'.op \in {"pointer", "toggleMute", "play"}
    \/ ev'.click
    \/ currentSlide' # currentSlide

\* C22 (as claimed): while Playing, every pointer movement, click or state
\* change (slide change by goToSlide, key or auto-advance, mute toggle, play)
\* leaves the controls visible with the auto-hide timer pending.
C22_AnyActivityRevealsControls ==
    [][(mounted' /\ isPlaying' /\ C22_Activity)
       => (showControls' /\ controlsTimer')]_vars

\* C22 (amended): pointer movement, a click inside the player and a change
\* of isPlaying reveal the controls and leave the auto-hide timer pending
\* exactly when the player is then Playing; every other step (a slide change
\* or mute toggle by key, auto-advance, ticks, narration events) leaves the
\* controls and the timer as they were; the controls are hidden only by the
\* timer, which runs only while Playing.
C22_PointerClickOrPlayChangeReveals ==
    [][mounted'
       => /\ (ev'.op = "pointer" \/ ev'.click \/ isPlaying' # isPlaying)
             => (showControls' /\ controlsTimer' = isPlaying')
          /\ (ev'.op # "pointer" /\ ~ev'.click /\ isPlaying' = isPlaying
              /\ ev'.op # "hideControls")
             => UNCHANGED <<showControls, controlsTimer>>
          /\ (ev'.op = "hideControls")
             => (isPlaying /\ controlsTimer /\ ~showControls' /\ ~controlsTimer')]_vars

\* C22 witness: the controls were hidden while Playing; an arrow key moved
\* to slide 1, and they are still hidden with no timer pending
C22_Witness ==
    /\ ev.op = "goToSlide" /\ ~ev.click /\ ev.wasPlaying
    /\ isPlaying
    /\ currentSlide = 1
    /\ ~showControls /\ ~controlsTimer

\* C25: the slide index stays in range. In every reachable state of a
\* presentation with at least one slide, 0 <= currentSlide < slideCount.
C25_SlideIndexInRange ==
    /\ slideCount >= 1
    /\ currentSlide \in 0..(slideCount - 1)

\* C25 witness: while Playing on the last of two slides the right arrow key
\* asked for slide 2, and the player is still on slide 1
C25_Witness ==
    /\ ev.op = "goToSlide" /\ ~ev.click /\ ev.idx = 2
    /\ slideCount = 2
    /\ currentSlide = 1
    /\ isPlaying

\* A render of a mounted player after which speakSlide runs: the effect of
\* lines 108-110, or goToSlide while Playing
C26_NarrationStarts ==
    /\ mounted' /\ isPlaying'
    /\ \/ currentSlide' # currentSlide
       \/ isPlaying' # isPlaying
       \/ isMuted' # isMuted
       \/ ev'.op = "goToSlide" /\ ev'.idx \in 0..(slideCount - 1)

\* C26: slideProgress (in thousandths) lies in [0,1]; a progress tick sets
\* it to min(elapsed / estimatedDuration, 1) with an estimated duration of
\* 4000 ms when muted and max(wordCount * 60000 / 140, 3000) ms when
\* audible; it is 0 right after every narration start, goToSlide and stop.
C26_SlideProgress ==
    [][/\ slideProgress' \in 0..1000
       /\ (mounted /\ ev'.op = "tick")
          => \A iv \in intervals :
                iv.idx = ev'.idx
                => slideProgress' =
                     Min((elapsed * StepMs * 1000)
                            \div (IF iv.muted THEN 4000
                                  ELSE Max((WordCount(iv.idx) * 60000) \div 140, 3000)),
                         1000)
       /\ \/ C26_NarrationStarts
          \/ mounted /\ ev'.op = "stop"
          \/ mounted /\ ev'.op = "goToSlide" /\ ev'.idx \in 0..(slideCount - 1)
          => slideProgress' = 0]_vars

\* C26 witness: an audible narration of 3000 ms was ticked after 4000 ms,
\* and the progress was clamped to 1
C26_Witness ==
    /\ ev.op = "tick"
    /\ isPlaying /\ ~isMuted
    /\ queue # {}
    /\ elapsed * StepMs > durationRef
    /\ slideProgress = 1000

\* C27 (as claimed): a delayed auto-advance scheduled by the completion of
\* an earlier slide that fires right after pause(), stop() or goToSlide
\* changes neither currentSlide nor isPlaying nor slideProgress (so that the
\* slide index of a player that is not Playing changes only through
\* goToSlide or stop).
C27_StaleAdvanceIgnored ==
    [][(mounted /\ ev.op \in {"pause", "stop", "goToSlide"} /\ ev'.op = "advance")
       => UNCHANGED <<currentSlide, isPlaying, slideProgress>>]_vars

\* C28 (as claimed): the end or error event of an utterance the player has
\* cancelled changes neither currentSlide nor isPlaying nor slideProgress and
\* leaves the running progress interval running.
C28_LateCallbackIgnored ==
    [][(mounted /\ ev'.op \in {"lateEnd", "lateError"})
       => UNCHANGED <<currentSlide, isPlaying, slideProgress, intervals>>]_vars

\* Muted playback left to itself: the user gives no more input and the
\* speech engine holds no utterance and owes no event
C29_MutedUnattended ==
    /\ handsOff /\ mounted
    /\ isPlaying /\ isMuted
    /\ queue = {} /\ cancelled = {}

\* C29 (as claimed): muted playback terminates. From a state with isPlaying
\* and isMuted on slide k, without user input and with fair timers, a timer
\* callback moves the player only to the next slide and stops playback only
\* on the last slide, and eventually isPlaying is false.
C29_MutedPlaybackTerminates ==
    /\ [][(C29_MutedUnattended /\ ev'.op \in {"tick", "advance"})
          => /\ currentSlide' \in {currentSlide, currentSlide + 1}
             /\ ~isPlaying' => currentSlide = slideCount - 1]_vars
    /\ C29_MutedUnattended ~> ~isPlaying

----------------------------------------------------------------------------
(* Claims about the chat panel's requests, checked under ChatSpec *)

\* C5 (as claimed): one active stream per conversation. At no instant have
\* two invocations of handleSend issued a request or hold a stream reader.
C5_OneActiveStream ==
    Cardinality({i \in Sends : /\ caller[i] = "chat"
                               /\ sendPc[i] \in {"fetch", "read"}}) <= 1

\* The invocations of a handler that are not running: not called, returned
\* by the guard, or settled
C23_Quiet(c) ==
    \A i \in Sends : caller[i] = c => sendPc[i] \in {"returned", "settled"}

\* C23: every request outcome ends idle. The step by which an invocation of
\* handleSend or handleAction settles (normal end, failed request, no
\* sources, exception while reading) leaves the handler's busy flag cleared,
\* and whenever no invocation of a handler is running its flag is clear, so
\* that a new request passes the guard.
C23_SettledIsIdle ==
    [][/\ \A i \in Sends :
            (sendPc[i] # "settled" /\ sendPc'[i] = "settled")
            => IF caller[i] = "chat" THEN ~isStreaming' ELSE ~loadingAction'
       /\ C23_Quiet("chat")' => (~isStreaming' /\ SendGuard')
       /\ C23_Quiet("studio")' => ~loadingAction']_vars

\* C23 witness: a chat request failed while its stream was read, after
\* content had arrived, and a studio request found no sources; both flags
\* are clear
C23_Witness ==
    /\ sendPc = [i \in Sends |-> "settled"]
    /\ caller[1] = "chat" /\ caller[2] = "studio"
    /\ hasContent[1]
    /\ failure = NoFailure
    /\ toasts = 2
    /\ ~isStreaming /\ ~loadingAction

\* C24 (as claimed): a non-2xx response fails the request before any delta
\* is accumulated, and the message shown is the error string of the JSON
\* body when there is one and "Error <status>" otherwise, also when the
\* body is not valid JSON, for handleSend and for handleAction.
C24_NonOkMessage ==
    failure.resp.kind = "http"
    => /\ ~failure.content
       /\ failure.message =
            IF failure.resp.json /\ failure.resp.error # ""
            THEN failure.resp.error
            ELSE "Error " \o ToString(failure.resp.status)

\* C30 (as claimed): for each chat request the displayed list holds at most
\* one assistant message with that request's assistant id: a later snapshot
\* rewrites the entry and never appends a second one, whatever was appended
\* to the list in between.
C30_OneAssistantEntryPerRequest ==
    \A i \in Sends :
        Cardinality({k \in 1..Len(messages) : messages[k] = AssistantMessage(i)}) <= 1

============================================================================
